---- MODULE Spec2Model ----
(***************************************************************************)
(* Model of the JNI glue of org.jitsi.webrtcvadwrapper.WebRTCVad            *)
(* (src/src/native/org_jitsi_webrtcvadwrapper_WebRTCVad.cpp).               *)
(*                                                                         *)
(* The four native methods (nativeOpen, nativeClose, nativeIsOpen,          *)
(* nativeIsSpeech) act on Java objects that carry one long field,           *)
(* nativeVadPointer, and on the native heap of Fvad instances.  The         *)
(* detector core (fvad_new, fvad_set_sample_rate, fvad_set_mode,            *)
(* fvad_free, fvad_process) is declared in fvad.h and is not part of the    *)
(* source set; it is modelled from the design document: argument            *)
(* validation, frame-length validation and the hangover automaton           *)
(* {SILENCE, SPEECH, HOLDING(n)}.  The audio content of a frame is          *)
(* abstracted to the raw verdict the likelihood test gives it.              *)
(***************************************************************************)
EXTENDS Integers, Sequences, FiniteSets, TLC

VARIABLES
    handle,     \* nativeVadPointer of every Java WebRTCVad object
    heap,       \* the native heap: one slot per address an Fvad may occupy
    crashed,    \* the process was aborted (failed assert / null dereference)
    lastOp,     \* the native call that ran last, its arguments and its result
    trace,      \* observer: per detector, the current session's frames and results
    thr,        \* per thread: the native call it is in, its position and its locals
    marsh       \* one nativeIsSpeech call's array, its int16_t buffer and position

vars == <<handle, heap, crashed, lastOp, trace, thr, marsh>>

----------------------------------------------------------------------------
(* Bounds of the model *)

\* number of addresses the native heap can hand out
MaxInst == 2
\* number of classify calls per session the observer records
MaxFrames == 3
\* longest Java array whose copy is followed element by element
MaxLen == 2

----------------------------------------------------------------------------
(* The objects and the inputs *)

Detectors == {"A", "B"}
Threads == {"t1", "t2"}
NULL == 0
Inst == 1..MaxInst

\* sample rates and modes the callers pass to open; 44100 and 4 are unsupported
\* (the core then keeps its defaults, 8000 Hz and mode 0)
RateInputs == {16000, 44100}
ModeInputs == {3, 4}
\* frame lengths: 80 = 10 ms at 8 kHz only, 480 = 30 ms at 16 kHz only
LenInputs == {80, 480}
\* raw verdict of the likelihood test on the frame's content: 1 speech, 0 not
RawInputs == {0, 1}
FrameInputs == [len : LenInputs, raw : RawInputs]

\* the inputs of the specification that records sessions
ObsRateInputs == {16000, 44100}
ObsModeInputs == {2, 3}
ObsFrameInputs == FrameInputs \ {[len |-> 80, raw |-> 0]}

----------------------------------------------------------------------------
(* The detector core, as fvad.h declares it and the design describes it *)

valid_rates == {8000, 16000, 32000, 48000}
valid_modes == 0..3
valid_durations == {10, 20, 30}

\* frame length must be 10, 20 or 30 ms of audio at the instance's rate
valid_length(rate, length) ==
    \E ms \in valid_durations : length = (rate \div 1000) * ms

\* hold length of the hangover smoother: shorter for more aggressive modes
HoldMax(mode) == (4 - mode) \div 2

\* content of a freshly reset instance: 8 kHz, mode 0, automaton in SILENCE
fvad_reset(owner) ==
    [status |-> "live", owner |-> owner, rate |-> 8000, mode |-> 0,
     hstate |-> "SILENCE", hold |-> 0]

\* a heap slot that was never allocated
UnusedSlot ==
    [status |-> "unused", owner |-> "none", rate |-> 8000, mode |-> 0,
     hstate |-> "SILENCE", hold |-> 0]

Min(S) == CHOOSE x \in S : \A y \in S : x <= y

\* the address fvad_new's allocation returns: the lowest one that is not
\* occupied by a live instance (released memory is handed out again)
fvad_new(h) ==
    LET free == {i \in Inst : h[i].status # "live"}
    IN  IF free = {} THEN NULL ELSE Min(free)

\* returns 0 and sets the rate, or -1 and leaves the instance alone
fvad_set_sample_rate(inst, sampleRate) ==
    IF sampleRate \in valid_rates
    THEN [rv |-> 0, inst |-> [inst EXCEPT !.rate = sampleRate]]
    ELSE [rv |-> -1, inst |-> inst]

\* returns 0 and sets the mode, or -1 and leaves the instance alone
fvad_set_mode(inst, mode) ==
    IF mode \in valid_modes
    THEN [rv |-> 0, inst |-> [inst EXCEPT !.mode = mode]]
    ELSE [rv |-> -1, inst |-> inst]

\* a released instance: its memory is no longer the program's to read
fvad_free(inst) == [UnusedSlot EXCEPT !.status = "released", !.owner = inst.owner]

\* the hangover automaton; HOLDING(0) is SILENCE
Hangover(inst, raw) ==
    IF raw = 1 THEN [inst EXCEPT !.hstate = "SPEECH", !.hold = 0]
    ELSE IF inst.hstate = "SPEECH" /\ HoldMax(inst.mode) > 0
         THEN [inst EXCEPT !.hstate = "HOLDING", !.hold = HoldMax(inst.mode)]
    ELSE IF inst.hstate = "HOLDING" /\ inst.hold > 1
         THEN [inst EXCEPT !.hold = inst.hold - 1]
    ELSE [inst EXCEPT !.hstate = "SILENCE", !.hold = 0]

\* one frame through the core: -1 and no change on a bad length, else the
\* emitted decision (1 in SPEECH and HOLDING, 0 in SILENCE) and the new state
fvad_process(inst, raw, length) ==
    IF ~valid_length(inst.rate, length)
    THEN [rv |-> -1, inst |-> inst]
    ELSE LET next == Hangover(inst, raw)
         IN  [rv |-> IF next.hstate = "SILENCE" THEN 0 ELSE 1, inst |-> next]

----------------------------------------------------------------------------
(* The JNI glue *)

\* variant: the pointer kept in one static slot instead of the object's field
setPointerToVadObject_static(h, thisObj, vadPtr) == [d \in DOMAIN h |-> vadPtr]

\* SetLongField(thisObj, nativeVadPointer, vadPtr)
setPointerToVadObject(h, thisObj, vadPtr) == [h EXCEPT ![thisObj] = vadPtr]

\* variant: the field read from a cached object instead of thisObj
getPointerToVadObject_cached(h, thisObj) == h[CHOOSE d \in DOMAIN h : TRUE]

\* GetLongField(thisObj, nativeVadPointer)
getPointerToVadObject(h, thisObj) == h[thisObj]

\* what the pointer refers to when a core routine receives it
PtrStatus(h, vadPtr) == IF vadPtr = NULL THEN "null" ELSE h[vadPtr].status

\* variant: fvad_set_mode is not called
nativeOpen_dropsMode(thisObj, sampleRate, mode) ==
    /\ ~crashed
    /\ LET vadPtr == fvad_new(heap)
           s1 == fvad_set_sample_rate(fvad_reset(thisObj), sampleRate)
       IN  /\ vadPtr # NULL
           /\ heap' = [heap EXCEPT ![vadPtr] = s1.inst]
           /\ handle' = setPointerToVadObject(handle, thisObj, vadPtr)
    /\ UNCHANGED crashed

\* nativeOpen: fvad_new, fvad_set_sample_rate and fvad_set_mode with their
\* return values dropped, then the pointer is stored unconditionally
nativeOpen(thisObj, sampleRate, mode) ==
    /\ ~crashed
    /\ LET vadPtr == fvad_new(heap)
           s1 == fvad_set_sample_rate(fvad_reset(thisObj), sampleRate)
           s2 == fvad_set_mode(s1.inst, mode)
       IN  /\ vadPtr # NULL
           /\ heap' = [heap EXCEPT ![vadPtr] = s2.inst]
           /\ handle' = setPointerToVadObject(handle, thisObj, vadPtr)
    /\ UNCHANGED crashed

\* variant: the field is not set to null after the release
nativeClose_keepsPointer(thisObj) ==
    /\ ~crashed
    /\ LET vadPtr == getPointerToVadObject(handle, thisObj)
       IN  IF PtrStatus(heap, vadPtr) = "live"
           THEN /\ heap' = [heap EXCEPT ![vadPtr] = fvad_free(@)]
                /\ UNCHANGED <<handle, crashed>>
           ELSE \/ /\ crashed' = TRUE
                   /\ UNCHANGED <<handle, heap>>
                \/ UNCHANGED <<handle, heap, crashed>>

\* nativeClose: fvad_free on whatever the field holds, then the field is nulled.
\* fvad_free on a pointer that is not a live instance is outside the core's
\* contract: the call aborts the process or returns, depending on the build.
nativeClose(thisObj) ==
    /\ ~crashed
    /\ LET vadPtr == getPointerToVadObject(handle, thisObj)
       IN  IF PtrStatus(heap, vadPtr) = "live"
           THEN /\ heap' = [heap EXCEPT ![vadPtr] = fvad_free(@)]
                /\ handle' = setPointerToVadObject(handle, thisObj, NULL)
                /\ UNCHANGED crashed
           ELSE \/ /\ crashed' = TRUE
                   /\ UNCHANGED <<handle, heap>>
                \/ /\ handle' = setPointerToVadObject(handle, thisObj, NULL)
                   /\ UNCHANGED <<heap, crashed>>

\* nativeIsOpen: returns true exactly when the field is not null
nativeIsOpen(thisObj, result) ==
    /\ ~crashed
    /\ LET vadPrt == getPointerToVadObject(handle, thisObj)
       IN  result = IF vadPrt # NULL THEN 1 ELSE 0
    /\ UNCHANGED <<handle, heap, crashed>>

\* GetArrayLength(javaAudioSample)
GetArrayLength(frame) == frame.len

\* variant: the loop that fills the int16_t buffer is skipped, silence is passed
CopySamples_skipped(frame) == 0

\* the copy loop: every element of the Java array goes into the int16_t buffer,
\* so the core sees the frame's content (here: the verdict that content yields)
CopySamples(frame) == frame.raw

\* variant: the result is narrowed to a jboolean, every non-zero value is true
ReturnResult_asBoolean(result) == IF result # 0 THEN 1 ELSE 0

\* the jint the native method returns: fvad_process's int, unchanged
ReturnResult(result) == result

\* nativeIsSpeech: the array is copied and handed to fvad_process together with
\* whatever the field holds; no null check.  fvad_process on a pointer that is
\* not a live instance is undefined: the process aborts (no value comes back,
\* result is -1 by convention) or some value comes back.
nativeIsSpeech(thisObj, frame, result) ==
    /\ ~crashed
    /\ LET len == GetArrayLength(frame)
           vadPtr == getPointerToVadObject(handle, thisObj)
       IN  IF PtrStatus(heap, vadPtr) = "live"
           THEN LET r == fvad_process(heap[vadPtr], CopySamples(frame), len)
                IN  /\ result = ReturnResult(r.rv)
                    /\ heap' = [heap EXCEPT ![vadPtr] = r.inst]
                    /\ UNCHANGED <<handle, crashed>>
           ELSE \/ /\ result = -1
                   /\ crashed' = TRUE
                   /\ UNCHANGED <<handle, heap>>
                \/ UNCHANGED <<handle, heap, crashed>>

Results == {-1, 0, 1}

\* the pointer a call hands to the core: nativeClose passes the field's value
\* to fvad_free and nativeIsSpeech passes it to fvad_process, both unchecked;
\* nativeIsOpen calls nothing (-1); nativeOpen passes what fvad_new returned
HandedToCore(h, hp, op, thisObj) ==
    IF op \in {"close", "classify"} THEN getPointerToVadObject(h, thisObj)
    ELSE IF op = "open" THEN fvad_new(hp)
    ELSE -1

\* what a call acquires: nativeIsSpeech takes the array's element view
\* (GetIntArrayElements) and allocates the int16_t buffer (new[])
Acquired(op) == IF op = "classify" THEN {"elements", "buffer"} ELSE {}

\* what a call gives back before it returns: nativeIsSpeech deletes the buffer
\* (delete[]); it has no ReleaseIntArrayElements
Released(op) == IF op = "classify" THEN {"buffer"} ELSE {}

----------------------------------------------------------------------------
(* Observers.  lastOp is the call that ran last; trace is the session: what  *)
(* a detector was opened with and what it was fed and answered since.       *)

NoFrame == [len |-> 0, raw |-> 0]

\* the glue raises no Java exception anywhere, so thrown is "none" after
\* every call; ptr is what the object's field held when the call began, held
\* is what the call acquired and still holds when it returns, overlap tells
\* whether another call on the same detector was in flight during the call
Call(op, thisObj, sampleRate, mode, frame, result) ==
    [op |-> op, d |-> thisObj, rate |-> sampleRate, mode |-> mode,
     len |-> frame.len,
     ptr |-> getPointerToVadObject(handle, thisObj),
     ptrStatus |-> PtrStatus(heap, getPointerToVadObject(handle, thisObj)),
     core |-> HandedToCore(handle, heap, op, thisObj),
     result |-> result, thrown |-> "none",
     held |-> Acquired(op) \ Released(op), overlap |-> FALSE]

NoSession == [rate |-> 0, mode |-> 0, frames |-> <<>>, results |-> <<>>]

RecordOpen(thisObj, sampleRate, mode) ==
    trace' = [trace EXCEPT ![thisObj] =
                 [rate |-> sampleRate, mode |-> mode, frames |-> <<>>, results |-> <<>>]]

RecordClose(thisObj) == trace' = [trace EXCEPT ![thisObj] = NoSession]

RecordClassify(thisObj, frame, result) ==
    IF getPointerToVadObject(handle, thisObj) = NULL
    THEN UNCHANGED trace
    ELSE /\ Len(trace[thisObj].frames) < MaxFrames
         /\ trace' = [trace EXCEPT ![thisObj].frames = Append(@, frame),
                                   ![thisObj].results = Append(@, result)]

\* a thread that is in no native call
IdleThread ==
    [pc |-> "idle", op |-> "none", d |-> "A", vadPtr |-> NULL, len |-> 0,
     raw |-> 0, overlap |-> FALSE]

\* no nativeIsSpeech call is being followed
NoMarshal == [pc |-> "idle", javaArray |-> <<>>, audioSample |-> <<>>, length |-> 0]

----------------------------------------------------------------------------
(* The specifications *)

Init ==
    /\ handle = [d \in Detectors |-> NULL]
    /\ heap = [i \in Inst |-> UnusedSlot]
    /\ crashed = FALSE
    /\ lastOp = [op |-> "none", d |-> "A", rate |-> 0, mode |-> 0, len |-> 0,
                 ptr |-> NULL, ptrStatus |-> "null", core |-> -1, result |-> 0,
                 thrown |-> "none", held |-> {}, overlap |-> FALSE]
    /\ trace = [d \in Detectors |-> NoSession]
    /\ thr = [t \in Threads |-> IdleThread]
    /\ marsh = NoMarshal

Open ==
    \E d \in Detectors, r \in RateInputs, m \in ModeInputs :
        /\ nativeOpen(d, r, m)
        /\ lastOp' = Call("open", d, r, m, NoFrame, 0)
        /\ UNCHANGED <<trace, thr, marsh>>

Close ==
    \E d \in Detectors :
        /\ nativeClose(d)
        /\ lastOp' = Call("close", d, 0, 0, NoFrame, 0)
        /\ UNCHANGED <<trace, thr, marsh>>

IsOpen ==
    \E d \in Detectors, res \in {0, 1} :
        /\ nativeIsOpen(d, res)
        /\ lastOp' = Call("isOpen", d, 0, 0, NoFrame, res)
        /\ UNCHANGED <<trace, thr, marsh>>

IsSpeech ==
    \E d \in Detectors, f \in FrameInputs, res \in Results :
        /\ nativeIsSpeech(d, f, res)
        /\ lastOp' = Call("classify", d, 0, 0, f, res)
        /\ UNCHANGED <<trace, thr, marsh>>

Next == Open \/ Close \/ IsOpen \/ IsSpeech

Spec == Init /\ [][Next]_vars

\* the sessions observed are those of a caller that opens a closed detector
ObsOpen ==
    \E d \in Detectors, r \in ObsRateInputs, m \in ObsModeInputs :
        /\ getPointerToVadObject(handle, d) = NULL
        /\ nativeOpen(d, r, m) /\ RecordOpen(d, r, m)
        /\ UNCHANGED <<lastOp, thr, marsh>>

ObsClose ==
    \E d \in Detectors :
        nativeClose(d) /\ RecordClose(d) /\ UNCHANGED <<lastOp, thr, marsh>>

ObsIsOpen ==
    \E d \in Detectors, res \in {0, 1} :
        nativeIsOpen(d, res) /\ UNCHANGED <<trace, lastOp, thr, marsh>>

ObsIsSpeech ==
    \E d \in Detectors, f \in ObsFrameInputs, res \in Results :
        /\ nativeIsSpeech(d, f, res) /\ RecordClassify(d, f, res)
        /\ UNCHANGED <<lastOp, thr, marsh>>

NextObs == ObsOpen \/ ObsClose \/ ObsIsOpen \/ ObsIsSpeech

SpecObs == Init /\ [][NextObs]_vars

----------------------------------------------------------------------------
(* Threads.  The glue takes no lock, so a native call of one thread is a     *)
(* sequence of steps between which another thread's call may run: reading   *)
(* the field, calling the core, writing the field.                          *)

ConcRateInputs == {16000}
ConcModeInputs == {3}
ConcFrameInputs == {[len |-> 480, raw |-> 1]}

\* the threads other than t that are inside a call on detector d
InFlightOn(t, d) == {u \in Threads \ {t} : thr[u].pc # "idle" /\ thr[u].d = d}

\* thread t enters a call on d: it has read the field into its local vadPtr
Enter(t, op, d, frame, pc) ==
    thr' = [u \in Threads |->
              IF u = t
              THEN [pc |-> pc, op |-> op, d |-> d,
                    vadPtr |-> getPointerToVadObject(handle, d),
                    len |-> GetArrayLength(frame), raw |-> CopySamples(frame),
                    overlap |-> InFlightOn(t, d) # {}]
              ELSE IF u \in InFlightOn(t, d) THEN [thr[u] EXCEPT !.overlap = TRUE]
              ELSE thr[u]]

\* the core call of thread t as lastOp records it: the pointer is the thread's
\* local, its status is the one it has at the moment of the call
ConcCall(t, result) ==
    [op |-> thr[t].op, d |-> thr[t].d, rate |-> 0, mode |-> 0, len |-> thr[t].len,
     ptr |-> thr[t].vadPtr, ptrStatus |-> PtrStatus(heap, thr[t].vadPtr),
     core |-> thr[t].vadPtr, result |-> result, thrown |-> "none",
     held |-> Acquired(thr[t].op) \ Released(thr[t].op),
     overlap |-> thr[t].overlap]

\* nativeClose, first statement: vadPtr = getPointerToVadObject(env, thisObj)
CloseGet(t, thisObj) ==
    /\ ~crashed /\ thr[t].pc = "idle"
    /\ Enter(t, "close", thisObj, NoFrame, "close_free")
    /\ UNCHANGED <<handle, heap, crashed, lastOp>>

\* nativeClose, second statement: fvad_free(vadPtr)
CloseFree(t) ==
    /\ ~crashed /\ thr[t].pc = "close_free"
    /\ lastOp' = ConcCall(t, 0)
    /\ LET vadPtr == thr[t].vadPtr
       IN  IF PtrStatus(heap, vadPtr) = "live"
           THEN /\ heap' = [heap EXCEPT ![vadPtr] = fvad_free(@)]
                /\ thr' = [thr EXCEPT ![t].pc = "close_set"]
                /\ UNCHANGED crashed
           ELSE \/ /\ crashed' = TRUE
                   /\ UNCHANGED <<heap, thr>>
                \/ /\ thr' = [thr EXCEPT ![t].pc = "close_set"]
                   /\ UNCHANGED <<heap, crashed>>
    /\ UNCHANGED handle

\* variant: the field is left as it is
CloseSet_keepsPointer(t) ==
    /\ ~crashed /\ thr[t].pc = "close_set"
    /\ thr' = [thr EXCEPT ![t].pc = "idle"]
    /\ UNCHANGED <<handle, heap, crashed, lastOp>>

\* nativeClose, third statement: setPointerToVadObject(env, thisObj, nullptr)
CloseSet(t) ==
    /\ ~crashed /\ thr[t].pc = "close_set"
    /\ handle' = setPointerToVadObject(handle, thr[t].d, NULL)
    /\ thr' = [thr EXCEPT ![t].pc = "idle"]
    /\ UNCHANGED <<heap, crashed, lastOp>>

\* nativeIsSpeech up to vadPtr = getPointerToVadObject(env, thisObj): the array
\* is copied, the field is read
SpeechGet(t, thisObj, frame) ==
    /\ ~crashed /\ thr[t].pc = "idle"
    /\ Enter(t, "classify", thisObj, frame, "speech_process")
    /\ UNCHANGED <<handle, heap, crashed, lastOp>>

\* nativeIsSpeech from fvad_process(vadPtr, audioSample, len) to the return
SpeechProcess(t, result) ==
    /\ ~crashed /\ thr[t].pc = "speech_process"
    /\ lastOp' = ConcCall(t, result)
    /\ LET vadPtr == thr[t].vadPtr
       IN  IF PtrStatus(heap, vadPtr) = "live"
           THEN LET r == fvad_process(heap[vadPtr], thr[t].raw, thr[t].len)
                IN  /\ result = ReturnResult(r.rv)
                    /\ heap' = [heap EXCEPT ![vadPtr] = r.inst]
                    /\ thr' = [thr EXCEPT ![t].pc = "idle"]
                    /\ UNCHANGED crashed
           ELSE \/ /\ result = -1
                   /\ crashed' = TRUE
                   /\ UNCHANGED <<heap, thr>>
                \/ /\ thr' = [thr EXCEPT ![t].pc = "idle"]
                   /\ UNCHANGED <<heap, crashed>>
    /\ UNCHANGED handle

\* open is called on a closed detector while no call is in flight
ConcOpen ==
    \E d \in Detectors, r \in ConcRateInputs, m \in ConcModeInputs :
        /\ \A t \in Threads : thr[t].pc = "idle"
        /\ getPointerToVadObject(handle, d) = NULL
        /\ nativeOpen(d, r, m)
        /\ lastOp' = Call("open", d, r, m, NoFrame, 0)
        /\ UNCHANGED <<trace, thr, marsh>>

ConcCloseGet ==
    \E t \in Threads, d \in Detectors : CloseGet(t, d) /\ UNCHANGED <<trace, marsh>>

ConcCloseFree == \E t \in Threads : CloseFree(t) /\ UNCHANGED <<trace, marsh>>

ConcCloseSet == \E t \in Threads : CloseSet(t) /\ UNCHANGED <<trace, marsh>>

ConcSpeechGet ==
    \E t \in Threads, d \in Detectors, f \in ConcFrameInputs :
        SpeechGet(t, d, f) /\ UNCHANGED <<trace, marsh>>

ConcSpeechProcess ==
    \E t \in Threads, res \in Results :
        SpeechProcess(t, res) /\ UNCHANGED <<trace, marsh>>

NextConc ==
    \/ ConcOpen \/ ConcCloseGet \/ ConcCloseFree \/ ConcCloseSet
    \/ ConcSpeechGet \/ ConcSpeechProcess

SpecConc == Init /\ [][NextConc]_vars

----------------------------------------------------------------------------
(* The copy of the Java int array into the int16_t buffer of one            *)
(* nativeIsSpeech call, element by element.                                 *)

\* jint values: the ends of the int16_t range, their neighbours, multiples of
\* 2^16 and values near the ends of the 32-bit range
SampleInputs ==
    {-2147483647, -65536, -32769, -32768, -1, 0, 1, 32767, 32768, 65535, 70000,
     2147483647}

RECURSIVE SeqsUpTo(_, _)
SeqsUpTo(S, n) ==
    IF n = 0 THEN {<<>>}
    ELSE LET shorter == SeqsUpTo(S, n - 1)
         IN  shorter \cup {Append(q, x) : q \in {w \in shorter : Len(w) = n - 1}, x \in S}

JavaArrays == SeqsUpTo(SampleInputs, MaxLen)

\* variant: the value is clamped to the int16_t range
Int16_saturating(x) ==
    IF x > 32767 THEN 32767 ELSE IF x < -32768 THEN -32768 ELSE x

\* audioSample[i] = javaArray[i]: the assignment converts jint to int16_t,
\* keeping the low 16 bits as a two's complement value
Int16(x) ==
    LET m == x % 65536
    IN  IF m >= 32768 THEN m - 65536 ELSE m

\* jsize len = GetArrayLength(javaAudioSample); jint* javaArray =
\* GetIntArrayElements(...); audioSample = new int16_t[len]
MarshalBegin ==
    /\ marsh.pc = "idle"
    /\ \E arr \in JavaArrays :
           marsh' = [pc |-> "copy", javaArray |-> arr, audioSample |-> <<>>,
                     length |-> Len(arr)]
    /\ UNCHANGED <<handle, heap, crashed, lastOp, trace, thr>>

\* one turn of for (int i = 0; i < len; i++) audioSample[i] = javaArray[i];
\* i is the number of elements already written
MarshalCopy ==
    /\ marsh.pc = "copy"
    /\ LET i == Len(marsh.audioSample)
       IN  /\ i < marsh.length
           /\ marsh' = [marsh EXCEPT
                          !.audioSample = Append(@, Int16(marsh.javaArray[i + 1]))]
    /\ UNCHANGED <<handle, heap, crashed, lastOp, trace, thr>>

\* the loop has ended: fvad_process(vadPtr, audioSample, (size_t) len)
MarshalPass ==
    /\ marsh.pc = "copy"
    /\ Len(marsh.audioSample) >= marsh.length
    /\ marsh' = [marsh EXCEPT !.pc = "passed"]
    /\ UNCHANGED <<handle, heap, crashed, lastOp, trace, thr>>

\* delete[] audioSample; return result
MarshalReturn ==
    /\ marsh.pc = "passed"
    /\ marsh' = NoMarshal
    /\ UNCHANGED <<handle, heap, crashed, lastOp, trace, thr>>

NextMarshal == MarshalBegin \/ MarshalCopy \/ MarshalPass \/ MarshalReturn

SpecMarshal == Init /\ [][NextMarshal]_vars

----------------------------------------------------------------------------
(* Helpers of the properties *)

IsOpenNow(d) == handle[d] # NULL

\* the instance a first open with these arguments creates: an unsupported rate
\* or mode leaves the default (8 kHz, mode 0) in place
FreshDetector(d, sampleRate, mode) ==
    [status |-> "live", owner |-> d,
     rate |-> IF sampleRate \in valid_rates THEN sampleRate ELSE 8000,
     mode |-> IF mode \in valid_modes THEN mode ELSE 0,
     hstate |-> "SILENCE", hold |-> 0]

\* a run of the core alone over a frame sequence
RECURSIVE Run(_, _)
Run(inst, frames) ==
    IF frames = <<>> THEN [inst |-> inst, results |-> <<>>]
    ELSE LET r == fvad_process(inst, Head(frames).raw, Head(frames).len)
             rest == Run(r.inst, Tail(frames))
         IN  [inst |-> rest.inst, results |-> <<r.rv>> \o rest.results]

\* positions of a session's frames whose length suits the configured rate
GoodIdx(d) ==
    {k \in 1..Len(trace[d].frames) :
        valid_length(heap[handle[d]].rate, trace[d].frames[k].len)}

BadIdx(d) == (1..Len(trace[d].frames)) \ GoodIdx(d)

\* the session's frames without the rejected ones: the control run's input
GoodFrames(d) ==
    SelectSeq(trace[d].frames, LAMBDA f : valid_length(heap[handle[d]].rate, f.len))

\* rank of a good position among the good positions
Rank(d, k) == Cardinality({j \in GoodIdx(d) : j <= k})

----------------------------------------------------------------------------
(* The properties *)

\* C1: open with a sample rate outside {8000, 16000, 32000, 48000} or a mode
\* outside 0..3 fails with ConfigError and leaves the detector closed.
C1_OpenRejectsInvalidArgs ==
    (lastOp.op = "open"
        /\ ~(lastOp.rate \in valid_rates /\ lastOp.mode \in valid_modes))
    => (lastOp.thrown = "ConfigError" /\ handle[lastOp.d] = NULL)

\* C2: classify on a detector whose stored handle is null reports NotOpenError
\* and hands nothing to the core.
C2_ClassifyOnClosedReportsNotOpen ==
    (lastOp.op = "classify" /\ lastOp.ptr = NULL)
    => (lastOp.thrown = "NotOpenError" /\ lastOp.core = -1 /\ ~crashed)

\* C3: close on a closed or never-opened detector is a safe no-op or a reported
\* usage error: the process survives, the detector stays closed and the release
\* routine is applied to nothing that is not a live instance.
C3_CloseIsIdempotent ==
    (lastOp.op = "close" /\ lastOp.ptrStatus # "live")
    => (/\ ~crashed
        /\ handle[lastOp.d] = NULL
        /\ (lastOp.core = -1 \/ lastOp.thrown = "NotOpenError"))

\* C4: a frame whose length is not 10, 20 or 30 ms at the configured rate is
\* answered with -1 (FrameSizeError) and changes nothing: the other answers of
\* the session and the detector's state are those of a control run of a fresh
\* detector over the session's frames without the rejected ones.
C4_BadFrameLeavesStateAlone ==
    \A d \in Detectors :
        IsOpenNow(d) =>
            LET t == trace[d]
                control == Run(FreshDetector(d, t.rate, t.mode), GoodFrames(d))
            IN  /\ \A k \in BadIdx(d) : t.results[k] = -1
                /\ \A k \in GoodIdx(d) : t.results[k] = control.results[Rank(d, k)]
                /\ heap[handle[d]] = control.inst

\* C4 witness: a session with a rejected frame before an accepted frame that
\* is answered "speech"
C4_Witness ==
    \E d \in Detectors :
        /\ IsOpenNow(d)
        /\ \E j \in BadIdx(d), k \in GoodIdx(d) :
              j < k /\ trace[d].results[j] = -1 /\ trace[d].results[k] = 1

\* C5: isOpen answers true exactly when the detector holds a live instance
\* (allocated and not released), and the stored handle is non-null exactly then.
C5_IsOpenIffLive ==
    /\ \A d \in Detectors :
          IsOpenNow(d) <=> PtrStatus(heap, handle[d]) = "live"
    /\ lastOp.op = "isOpen" =>
          (lastOp.result = 1 <=> PtrStatus(heap, handle[lastOp.d]) = "live")

\* C5 witness: isOpen answers false on a detector that was open and was closed
C5_Witness ==
    /\ lastOp.op = "isOpen" /\ lastOp.result = 0
    /\ \E i \in Inst : heap[i].status = "released" /\ heap[i].owner = lastOp.d

\* C6: every live instance is the one its detector's handle refers to: no
\* detector has two live instances and none is orphaned.
C6_OneLiveInstancePerDetector ==
    \A i \in Inst : heap[i].status = "live" => handle[heap[i].owner] = i

\* C7: a call on one detector leaves every other detector's handle and
\* instance as they were.
C7_DetectorsIndependent ==
    [][\A d \in Detectors :
          d # lastOp'.d =>
              /\ handle'[d] = handle[d]
              /\ handle[d] # NULL => heap'[handle[d]] = heap[handle[d]]]_vars

\* C7 witness: a classify on A has moved A's automaton to SPEECH while B is
\* open and still in SILENCE
C7_Witness ==
    /\ lastOp.op = "classify" /\ lastOp.d = "A" /\ lastOp.result = 1
    /\ IsOpenNow("A") /\ IsOpenNow("B")
    /\ heap[handle["A"]].hstate = "SPEECH"
    /\ heap[handle["B"]].hstate = "SILENCE"

\* C8: every accepted frame with a raw speech verdict is answered "speech", and
\* so is an accepted raw non-speech frame that directly follows one, whenever
\* the mode's hold length is at least one frame.
C8_HangoverHoldsOverDropout ==
    \A d \in Detectors :
        IsOpenNow(d) =>
            LET t == trace[d]
            IN  \A k \in GoodIdx(d) :
                  /\ t.frames[k].raw = 1 => t.results[k] = 1
                  /\ \A j \in GoodIdx(d) :
                        ( /\ Rank(d, j) + 1 = Rank(d, k)
                          /\ t.frames[j].raw = 1 /\ t.frames[k].raw = 0
                          /\ HoldMax(heap[handle[d]].mode) >= 1 )
                        => t.results[k] = 1

\* C8 witness: speech, one non-speech frame, speech again, all answered "speech"
C8_Witness ==
    \E d \in Detectors :
        /\ IsOpenNow(d)
        /\ Len(trace[d].frames) = 3
        /\ GoodIdx(d) = {1, 2, 3}
        /\ [k \in 1..3 |-> trace[d].frames[k].raw] = <<1, 0, 1>>
        /\ trace[d].results = <<1, 1, 1>>

\* C9: two open detectors with the same open arguments and the same frames so
\* far have given the same answers.
C9_Deterministic ==
    \A a, b \in Detectors :
        ( /\ IsOpenNow(a) /\ IsOpenNow(b)
          /\ trace[a].rate = trace[b].rate /\ trace[a].mode = trace[b].mode
          /\ trace[a].frames = trace[b].frames )
        => trace[a].results = trace[b].results

\* C9 witness: two detectors, same arguments, same three frames, answers that
\* are not all alike
C9_Witness ==
    /\ IsOpenNow("A") /\ IsOpenNow("B")
    /\ trace["A"].rate = trace["B"].rate /\ trace["A"].mode = trace["B"].mode
    /\ trace["A"].frames = trace["B"].frames
    /\ Len(trace["A"].frames) = 3
    /\ trace["A"].results = <<1, 1, 0>>

\* C10: after open the detector's instance is that of a detector opened for the
\* first time with the same arguments (automaton in SILENCE, no hold count),
\* whatever happened on the detector before.
C10_ReopenIsFresh ==
    lastOp.op = "open" =>
        heap[handle[lastOp.d]] = FreshDetector(lastOp.d, lastOp.rate, lastOp.mode)

\* C10 witness: an open on a closed detector that had released an instance
C10_Witness ==
    /\ lastOp.op = "open" /\ lastOp.ptr = NULL
    /\ \E i \in Inst : heap[i].status = "released" /\ heap[i].owner = lastOp.d

\* C11: every resource a classify call acquires (the array's element view, the
\* temporary sample buffer) is released before the call returns: nothing is
\* outstanding after it.
C11_ClassifyReleasesWhatItAcquires ==
    lastOp.op = "classify" => lastOp.held = {}

\* C12 as stated: in every interleaving of classify and close calls of
\* different threads, with no locking, every instance handed to fvad_process
\* or fvad_free is live: none is processed after its release, none released twice.
C12_NoUseAfterReleaseInAnyInterleaving ==
    (lastOp.op \in {"close", "classify"} /\ lastOp.core # NULL)
    => lastOp.ptrStatus = "live"

\* C12 amended: when the calls on one detector are serialized (no other call
\* on it is in flight while a call runs), every instance handed to
\* fvad_process or fvad_free is live.
C12_SerializedCallsSeeLiveInstances ==
    (lastOp.op \in {"close", "classify"} /\ ~lastOp.overlap /\ lastOp.core # NULL)
    => lastOp.ptrStatus = "live"

\* C12 witness: one thread has classified on a detector and returned, then the
\* other thread's close, overlapping nothing, has released the live instance
C12_Witness ==
    /\ lastOp.op = "close" /\ ~lastOp.overlap /\ lastOp.ptrStatus = "live"
    /\ heap[lastOp.core].status = "released"
    /\ thr["t2"].op = "close" /\ thr["t2"].d = lastOp.d /\ thr["t2"].pc = "close_set"
    /\ thr["t1"].op = "classify" /\ thr["t1"].d = lastOp.d /\ thr["t1"].pc = "idle"
    /\ ~thr["t1"].overlap

InInt16(x) == x >= -32768 /\ x <= 32767

\* C13: the buffer handed to the core has exactly as many samples as the input
\* array has elements, in the same order; the k-th sample equals the k-th
\* element when that lies in -32768..32767, and otherwise is the element
\* narrowed to 16 bits (congruent modulo 2^16, in the signed 16-bit range).
C13_MarshallingPreservesFrame ==
    marsh.pc = "passed" =>
        /\ marsh.length = Len(marsh.javaArray)
        /\ Len(marsh.audioSample) = Len(marsh.javaArray)
        /\ \A k \in 1..Len(marsh.javaArray) :
               LET x == marsh.javaArray[k]
                   y == marsh.audioSample[k]
               IN  /\ InInt16(y)
                   /\ y % 65536 = x % 65536
                   /\ InInt16(x) => y = x

\* C13 witness: a two-element frame whose first element is out of range and was
\* narrowed (32768 becomes -32768) and whose second is in range and kept, passed
C13_Witness ==
    /\ marsh.pc = "passed"
    /\ marsh.javaArray = <<32768, -1>>
    /\ marsh.audioSample = <<-32768, -1>>

====
